---- MODULE Spec2Model ----
(***************************************************************************)
(* The Linux device manager of USBGuard (LinuxDeviceManager.cpp): the      *)
(* worker thread that enumerates the present devices and handles hotplug   *)
(* events, the control surface that applies a policy target to a device    *)
(* (allow / block / reject), and the lifecycle of the manager              *)
(* (constructor, start, destructor / stop).                                *)
(***************************************************************************)
EXTENDS Naturals, Integers, Sequences, FiniteSets, TLC

VARIABLES
  present,             \* kernel: the syspaths of the devices plugged in
  queue,               \* the events the udev monitor holds, oldest first
  kcount,              \* number of plug / unplug / change steps the kernel has taken
  authorized_default,  \* sysfs authorized_default: TRUE = new devices arrive authorized
  prior_default,       \* the value authorized_default had before the constructor ran
  mpc,                 \* position of the thread that owns the manager
  stop_request,        \* _thread's stop flag
  event_fd,            \* counter of the eventfd _event_fd
  monitor_enabled,     \* udev_monitor_enable_receiving has been called
  next_id,             \* ID allocator of DeviceManager
  assigned,            \* the IDs handed out, in assignment order
  objs,                \* Pointer<Device> targets: id -> [sys, target, parent_id]
  mutex,               \* id -> owner of the device's mutex
  device_map,          \* DeviceManager::_device_map (its keys)
  syspath_map,         \* LinuxDeviceManager::_syspath_map: syspath -> id
  wpc,                 \* position of the worker in LinuxDeviceManager::thread
  wenum,               \* remaining entries of the udev enumeration list
  wcur,                \* the device the worker is inserting
  wctx,                \* which path called insertDevice: "presence" or "insertion"
  spc,                 \* position of the caller of scan() in scan / udevEnumerateDevices
  senum,               \* remaining entries of the enumeration list of scan()
  scur,                \* the device the caller of scan() is inserting
  cpc,                 \* control thread -> position in allowDevice / blockDevice / rejectDevice
  cdev,                \* control thread -> device it applies the policy to
  ctarget,             \* control thread -> target it applies
  ncalls,              \* number of control calls made
  applied,             \* id -> target of the last backend write applyDevicePolicy got through
  step,                \* the step just taken: who, which path, its outcome, its effects
  pstate,              \* rule parser: where in the grammar it stands ("off": no parse)
  prule,               \* rule parser: the Rule the actions fill in
  pn,                  \* rule parser: number of tokens consumed
  pkeys,               \* rule parser: the attribute keywords consumed
  perr,                \* rule parser: the parse_error raised, if any
  plast,               \* rule parser: the token just consumed
  pclause,             \* rule parser: keyword, operator and values of the clause under way
  conds,               \* the FixedStateCondition objects alive
  cres                 \* the last call on a condition and what it returned

vars == <<present, queue, kcount, authorized_default, prior_default,
          mpc, stop_request, event_fd, monitor_enabled, next_id, assigned, objs,
          mutex, device_map, syspath_map, wpc, wenum, wcur, wctx,
          spc, senum, scur,
          cpc, cdev, ctarget, ncalls, applied, step,
          pstate, prule, pn, pkeys, perr, plast, pclause, conds, cres>>

kernelVars == <<present, queue, kcount>>
lifeVars == <<authorized_default, prior_default, mpc, stop_request, event_fd>>
devVars == <<next_id, assigned, objs, mutex, applied, device_map, syspath_map>>
workerVars == <<monitor_enabled, wpc, wenum, wcur, wctx>>
controlVars == <<cpc, cdev, ctarget, ncalls>>
scanVars == <<spc, senum, scur>>
parserVars == <<pstate, prule, pn, pkeys, perr, plast, pclause>>
condVars == <<conds, cres>>
ruleVars == <<parserVars, condVars>>
managerVars == <<kernelVars, lifeVars, devVars, workerVars, controlVars, scanVars, step>>

(***************************************************************************)
(* Bounds of the model.                                                    *)
(***************************************************************************)
MaxEvents == 3   \* kernel steps (plug, unplug, other uevent) under Spec
MaxCtlEvents == 2   \* kernel steps (plug, unplug) under ControlSpec
MaxCalls == 2   \* calls of allowDevice / blockDevice / rejectDevice
MaxScans == 1   \* calls of scan()
MaxScanEvents == 2   \* kernel steps (plug, unplug, other uevent) under ScanSpec

(***************************************************************************)
(* The USB tree: a root hub whose parent is no USB device, and a port on   *)
(* it. udev enumerates in syspath order, parents first.                    *)
(***************************************************************************)
SysPaths == {"usb1", "usb1/1-1"}
SysOrder == <<"usb1", "usb1/1-1">>
NoParent == "pci"
ParentOf(s) == IF s = "usb1" THEN NoParent ELSE "usb1"

Threads == {"c1", "c2"}
Worker == "worker"
Caller == "main"
NoOwner == "none"

RootID == 0

Targets == {"allow", "block", "reject"}
\* Rule::Target has three more values, which are no policy the backend applies
OtherTargets == {"match", "device", "unknown"}
AllTargets == Targets \cup OtherTargets
NoAction == "(null)"
AuthStates == {"1", "0", "x", "eof", "absent"}



(***************************************************************************)
(* The effects of a step (backend writes, notifications) and the record of *)
(* the step just taken.                                                    *)
(***************************************************************************)
WriteEntry(sys, target, f, v, ok) ==
  [type |-> "write", kind |-> target, sys |-> sys, ok |-> ok, file |-> f, value |-> v]

NotifyEntry(kind, sys) ==
  [type |-> "notify", kind |-> kind, sys |-> sys, ok |-> TRUE, file |-> "", value |-> 0]

\* what the constructor got from the device's authorized attribute
ReadEntry(sys, auth) ==
  [type |-> "read", kind |-> auth, sys |-> sys, ok |-> auth # "absent",
   file |-> "authorized", value |-> 0]

StepOf(by, path, sys, dev, res, fx) ==
  [by |-> by, path |-> path, sys |-> sys, dev |-> dev, res |-> res, fx |-> fx]

Quiet == StepOf("none", "quiet", "", 0, "na", <<>>)

Writes(fx) == SelectSeq(fx, LAMBDA e : e.type = "write")
Notifies(fx) == SelectSeq(fx, LAMBDA e : e.type = "notify")

(***************************************************************************)
(* LinuxDeviceManager::setDefaultBlockedState: sysioSetAuthorizedDefault   *)
(* is given !state, the new value of authorized_default.                   *)
(***************************************************************************)
setDefaultBlockedState_Same(state) == state
setDefaultBlockedState(state) == ~state

(***************************************************************************)
(* The state the destructor passes to setDefaultBlockedState.              *)
(***************************************************************************)
DtorBlockedState(prior) == FALSE

(***************************************************************************)
(* LinuxDeviceManager::sysioApplyTarget: the sysfs file and the value of a *)
(* target; any other target throws before anything is written.             *)
(***************************************************************************)
sysioApplyTarget_BlockAuthorizes(target) ==
  CASE target = "allow"  -> [valid |-> TRUE, file |-> "authorized", value |-> 1]
    [] target = "block"  -> [valid |-> TRUE, file |-> "authorized", value |-> 1]
    [] target = "reject" -> [valid |-> TRUE, file |-> "remove", value |-> 1]
    [] OTHER             -> [valid |-> FALSE, file |-> "", value |-> 0]
sysioApplyTarget(target) ==
  CASE target = "allow"  -> [valid |-> TRUE, file |-> "authorized", value |-> 1]
    [] target = "block"  -> [valid |-> TRUE, file |-> "authorized", value |-> 0]
    [] target = "reject" -> [valid |-> TRUE, file |-> "remove", value |-> 1]
    [] OTHER             -> [valid |-> FALSE, file |-> "", value |-> 0]

BackendWrite(sys, target, ok) ==
  LET io == sysioApplyTarget(target) IN WriteEntry(sys, target, io.file, io.value, ok)

(***************************************************************************)
(* LinuxDeviceManager::getIDFromSysPath: _syspath_map.at(syspath) throws   *)
(* for a syspath that is no key of the map.                                *)
(***************************************************************************)
getIDFromSysPath_Default(spm, syspath) ==
  IF syspath \in DOMAIN spm THEN [ok |-> TRUE, id |-> spm[syspath]]
                            ELSE [ok |-> TRUE, id |-> RootID]
getIDFromSysPath(spm, syspath) ==
  IF syspath \in DOMAIN spm THEN [ok |-> TRUE, id |-> spm[syspath]]
                            ELSE [ok |-> FALSE, id |-> RootID]

(***************************************************************************)
(* LinuxDevice::LinuxDevice. auth is what the authorized attribute reads   *)
(* ("absent": the stream is not good; "eof": the stream is good and get()  *)
(* returns no character; "x": any character but 0 and 1), parsed the       *)
(* number of bytes the descriptor parser processed. The result says        *)
(* whether the constructor returned (ok) or threw. The target is Unknown   *)
(* until the authorization state is read.                                  *)
(***************************************************************************)
USBDeviceDescriptorSize == 18
ParsedSizes == {0, 17, 18, 27}

AuthTarget_DefaultAllows(auth) == IF auth = "0" THEN "block" ELSE "allow"
AuthTarget(auth) == IF auth = "1" THEN "allow" ELSE "block"

LinuxDevice(spm, sys, auth, parsed) ==
  LET parent == ParentOf(sys)
      pid    == IF parent \in SysPaths THEN getIDFromSysPath(spm, parent)
                                       ELSE [ok |-> TRUE, id |-> RootID]
  IN  [ok        |-> pid.ok /\ auth # "absent" /\ ~(parsed < USBDeviceDescriptorSize),
       sys       |-> sys,
       parent_id |-> pid.id,
       target    |-> IF auth = "absent" THEN "unknown" ELSE AuthTarget(auth)]

\* the devices the constructor can build, and whether it can throw, for a syspath
Built(spm, sys) ==
  {d \in {LinuxDevice(spm, sys, auth, parsed) : auth \in AuthStates, parsed \in ParsedSizes} :
     d.ok}
CanThrow(spm, sys) ==
  \E auth \in AuthStates, parsed \in ParsedSizes : ~LinuxDevice(spm, sys, auth, parsed).ok

(***************************************************************************)
(* DeviceManager::insertDevice hands the device a fresh ID: the allocator  *)
(* counts up from 1 and never goes back.                                   *)
(***************************************************************************)
AssignID_Reuse(next, dm) ==
  CHOOSE i \in 1..next : i \notin dm /\ \A j \in 1..(i - 1) : j \in dm
AssignID(next, dm) == next

(***************************************************************************)
(* std::unique_lock on a device's mutex: acquired only when free.          *)
(***************************************************************************)
CanLock_NoMutex(id) == TRUE
CanLock(id) == mutex[id] = NoOwner

\* the unique_lock is a local of applyDevicePolicy and of insertDevice: the
\* mutex has no owner once the function has returned or was left by an
\* exception, which is before the caller's hook runs
ScopeExit_KeepsLock(holder) == holder
ScopeExit(holder) == NoOwner

(***************************************************************************)
(* udevReceiveDevice: which path an event's action runs.                   *)
(***************************************************************************)
ActionPath_AddOnly(action) == IF action = "add" THEN "insertion" ELSE "ignored"
ActionPath(action) ==
  IF action = "add" THEN "insertion"
  ELSE IF action = "remove" THEN "removal"
  ELSE "ignored"

(***************************************************************************)
(* The hotplug source: the kernel plugs and unplugs devices and sends      *)
(* other uevents; the monitor queues an event only once it is enabled.     *)
(* The manager looks at the kernel's state at three places only: before    *)
(* the monitor is enabled, when it scans for the present devices, and when *)
(* it waits in select. A kernel step taken anywhere else is seen as one    *)
(* taken at the next of these places, where the model takes it. The caller *)
(* of scan() looks at it when it scans for the present devices.            *)
(***************************************************************************)
Deliver(action, s) ==
  queue' = IF monitor_enabled THEN Append(queue, [action |-> action, sys |-> s])
                              ELSE queue

KernelRuns == wpc \in {"entry", "scan", "select"} \/ spc = "scan"

KernelPlug(max) ==
  /\ KernelRuns
  /\ kcount < max
  /\ \E s \in SysPaths \ present :
       /\ present' = present \cup {s}
       /\ Deliver("add", s)
  /\ kcount' = kcount + 1
  /\ step' = Quiet
  /\ UNCHANGED <<ruleVars, scanVars, lifeVars, devVars, workerVars, controlVars>>

KernelUnplug(max) ==
  /\ KernelRuns
  /\ kcount < max
  /\ \E s \in present :
       /\ present' = present \ {s}
       /\ Deliver("remove", s)
  /\ kcount' = kcount + 1
  /\ step' = Quiet
  /\ UNCHANGED <<ruleVars, scanVars, lifeVars, devVars, workerVars, controlVars>>

KernelOther(max) ==
  /\ KernelRuns
  /\ kcount < max
  /\ monitor_enabled
  /\ \E s \in present, a \in {"change", NoAction} : Deliver(a, s)
  /\ kcount' = kcount + 1
  /\ step' = Quiet
  /\ UNCHANGED <<ruleVars, scanVars, present, lifeVars, devVars, workerVars, controlVars>>

(***************************************************************************)
(* Lifecycle: constructor, start, destructor (which calls stop).           *)
(***************************************************************************)
Ctor ==
  /\ mpc = "new"
  /\ authorized_default' = setDefaultBlockedState(TRUE)
  /\ mpc' = "constructed"
  /\ step' = Quiet
  /\ UNCHANGED <<ruleVars, scanVars, kernelVars, prior_default, stop_request, event_fd, devVars,
                 workerVars, controlVars>>

Start ==
  /\ mpc = "constructed"
  /\ stop_request' = FALSE
  /\ wpc' = "entry"
  /\ mpc' = "started"
  /\ step' = Quiet
  /\ UNCHANGED <<ruleVars, scanVars, kernelVars, authorized_default, prior_default, event_fd, devVars,
                 monitor_enabled, wenum, wcur, wctx, controlVars>>

DtorRestore ==
  /\ mpc = "started"
  /\ authorized_default' = setDefaultBlockedState(DtorBlockedState(prior_default))
  /\ mpc' = "restored"
  /\ step' = Quiet
  /\ UNCHANGED <<ruleVars, scanVars, kernelVars, prior_default, stop_request, event_fd, devVars,
                 workerVars, controlVars>>

(***************************************************************************)
(* LinuxDeviceManager::stop, called by the destructor: set the stop flag,  *)
(* write 1 to the eventfd, join the worker.                                *)
(***************************************************************************)
StopRequest ==
  /\ mpc = "restored"
  /\ stop_request' = TRUE
  /\ mpc' = "stop_flagged"
  /\ step' = Quiet
  /\ UNCHANGED <<ruleVars, scanVars, kernelVars, authorized_default, prior_default, event_fd, devVars,
                 workerVars, controlVars>>

StopWake ==
  /\ mpc = "stop_flagged"
  /\ event_fd' = event_fd + 1
  /\ mpc' = "stop_woken"
  /\ step' = Quiet
  /\ UNCHANGED <<ruleVars, scanVars, kernelVars, authorized_default, prior_default, stop_request, devVars,
                 workerVars, controlVars>>

\* the worker function has returned, or was left by an exception
WorkerEnded == wpc \in {"exited", "failed"}

StopJoin ==
  /\ mpc = "stop_woken"
  /\ WorkerEnded
  /\ mpc' = "destroyed"
  /\ step' = Quiet
  /\ UNCHANGED <<ruleVars, scanVars, kernelVars, authorized_default, prior_default, stop_request, event_fd,
                 devVars, workerVars, controlVars>>


(***************************************************************************)
(* LinuxDeviceManager::thread: enable the monitor, enumerate, then loop.   *)
(***************************************************************************)
WorkerEnable ==
  /\ wpc = "entry"
  /\ monitor_enabled' = TRUE
  /\ wpc' = "scan"
  /\ step' = Quiet
  /\ UNCHANGED <<ruleVars, scanVars, kernelVars, lifeVars, devVars, wenum, wcur, wctx, controlVars>>

\* udev_enumerate_scan_devices: the devices present now, in syspath order
EnumerateScan(pres) == SelectSeq(SysOrder, LAMBDA s : s \in pres)

WorkerScan ==
  /\ wpc = "scan"
  /\ wenum' = EnumerateScan(present)
  /\ wpc' = "enum"
  /\ step' = Quiet
  /\ UNCHANGED <<ruleVars, scanVars, kernelVars, lifeVars, devVars, monitor_enabled, wcur, wctx, controlVars>>

\* DeviceManager::insertDevice: assign the ID, put the device in the device map
BaseInsert(d) ==
  LET id == AssignID(next_id, device_map)
  IN  /\ next_id' = next_id + 1
      /\ assigned' = Append(assigned, id)
      /\ objs' = [x \in DOMAIN objs \cup {id} |->
                    IF x = id THEN [sys |-> d.sys, target |-> d.target,
                                    parent_id |-> d.parent_id]
                              ELSE objs[x]]
      /\ mutex' = [x \in DOMAIN mutex \cup {id} |->
                    IF x \in DOMAIN mutex THEN mutex[x] ELSE NoOwner]
      /\ applied' = [x \in DOMAIN applied \cup {id} |->
                    IF x \in DOMAIN applied /\ x # id THEN applied[x] ELSE "none"]
      /\ device_map' = device_map \cup {id}

\* processDevicePresence when the construction throws: whether the device is rejected
PresenceRejectsOnFailure_Yes == TRUE
PresenceRejectsOnFailure == FALSE

\* processDeviceInsertion when the construction throws: whether the device is rejected
InsertionRejectsOnFailure_No == FALSE
InsertionRejectsOnFailure == TRUE

\* what follows the catch blocks of a path whose construction threw: the reject
\* write of the insertion path, whose failure leaves the worker function by an
\* exception; nothing on the presence path
FailurePath(rejects, sys, path, back) ==
  IF rejects
  THEN \E wok \in BOOLEAN :
         /\ step' = StepOf(Worker, path, sys, 0, "fail",
                           <<BackendWrite(sys, "reject", wok)>>)
         /\ wpc' = IF wok THEN back ELSE "failed"
  ELSE /\ step' = StepOf(Worker, path, sys, 0, "fail", <<>>)
       /\ wpc' = back

PresenceOk ==
  /\ wpc = "enum"
  /\ wenum # <<>>
  /\ \E auth \in AuthStates, parsed \in ParsedSizes :
       LET d == LinuxDevice(syspath_map, Head(wenum), auth, parsed) IN
       /\ d \in Built(syspath_map, Head(wenum))
       /\ BaseInsert(d)
       /\ wcur' = AssignID(next_id, device_map)
       /\ step' = StepOf(Worker, "presence", d.sys, wcur', "built",
                         <<ReadEntry(d.sys, auth)>>)
  /\ wenum' = Tail(wenum)
  /\ wctx' = "presence"
  /\ wpc' = "ins_lock"
  /\ UNCHANGED <<ruleVars, scanVars, kernelVars, lifeVars, syspath_map, monitor_enabled, controlVars>>

PresenceFail ==
  /\ wpc = "enum"
  /\ wenum # <<>>
  /\ CanThrow(syspath_map, Head(wenum))
  /\ FailurePath(PresenceRejectsOnFailure, Head(wenum), "presence", "enum")
  /\ wenum' = Tail(wenum)
  /\ UNCHANGED <<ruleVars, scanVars, kernelVars, lifeVars, devVars, monitor_enabled, wcur, wctx, controlVars>>

EnumDone ==
  /\ wpc = "enum"
  /\ wenum = <<>>
  /\ wpc' = "loop"
  /\ step' = Quiet
  /\ UNCHANGED <<ruleVars, scanVars, kernelVars, lifeVars, devVars, monitor_enabled, wenum, wcur, wctx,
                 controlVars>>

\* _syspath_map[device->getSysPath()] = device->getID()
RecordSyspath(spm, sys, id) ==
  [x \in DOMAIN spm \cup {sys} |-> IF x = sys THEN id ELSE spm[x]]

\* what a path does with the device it has registered: processDevicePresence
\* calls DevicePresent, processDeviceInsertion calls DeviceInserted, and
\* neither writes to the backend
AfterInsert_AppliesTarget(ctx, sys, target) ==
  IF ctx = "presence"
  THEN <<NotifyEntry("DevicePresent", sys)>>
  ELSE <<BackendWrite(sys, target, TRUE), NotifyEntry("DeviceInserted", sys),
         NotifyEntry(IF target = "allow" THEN "DeviceAllowed" ELSE "DeviceBlocked", sys)>>
AfterInsert(ctx, sys, target) ==
  <<NotifyEntry(IF ctx = "presence" THEN "DevicePresent" ELSE "DeviceInserted", sys)>>

\* LinuxDeviceManager::insertDevice after the base call: the device's mutex is
\* taken
InsertLock ==
  /\ wpc = "ins_lock"
  /\ CanLock(wcur)
  /\ mutex' = [mutex EXCEPT ![wcur] = Worker]
  /\ wpc' = "ins_held"
  /\ step' = Quiet
  /\ UNCHANGED <<ruleVars, scanVars, kernelVars, lifeVars, next_id, assigned, objs, applied, device_map,
                 syspath_map, monitor_enabled, wenum, wcur, wctx, controlVars>>

\* the syspath map entry under the device's mutex and the return of
\* insertDevice, then the notification of the calling path
InsertLocked ==
  /\ wpc = "ins_held"
  /\ LET sys == objs[wcur].sys IN
     /\ syspath_map' = RecordSyspath(syspath_map, sys, wcur)
     /\ step' = StepOf(Worker, wctx, sys, wcur, "ok",
                       AfterInsert(wctx, sys, objs[wcur].target))
  /\ mutex' = [mutex EXCEPT ![wcur] = ScopeExit(mutex[wcur])]
  /\ wpc' = IF wctx = "presence" THEN "enum" ELSE "loop"
  /\ UNCHANGED <<ruleVars, scanVars, kernelVars, lifeVars, next_id, assigned, objs, applied, device_map,
                 monitor_enabled, wenum, wcur, wctx, controlVars>>

(***************************************************************************)
(* LinuxDeviceManager::scan: the caller tests _thread.running() and, when  *)
(* the worker is not running, runs udevEnumerateDevices itself; otherwise  *)
(* scan throws. start() may be called by another thread at any time: the   *)
(* test and the enumeration are not one step. The Thread class is not part *)
(* of the sources at hand: running() is false before start() and true      *)
(* while the worker function runs, and may be either once the function has *)
(* ended and the thread is not yet joined.                                 *)
(***************************************************************************)
NotRunning == wpc = "idle" \/ WorkerEnded
Running == wpc # "idle"

Scan ==
  /\ mpc \in {"constructed", "started"}
  /\ spc = "idle"
  /\ ncalls < MaxScans
  /\ NotRunning
  /\ ncalls' = ncalls + 1
  /\ spc' = "scan"
  /\ step' = Quiet
  /\ UNCHANGED <<ruleVars, kernelVars, lifeVars, devVars, workerVars, cpc, cdev, ctarget,
                 senum, scur>>

\* throw std::runtime_error("DeviceManager thread is running, cannot perform a scan")
ScanRefused ==
  /\ mpc \in {"constructed", "started"}
  /\ spc = "idle"
  /\ ncalls < MaxScans
  /\ Running
  /\ ncalls' = ncalls + 1
  /\ step' = StepOf(Caller, "scan", "", 0, "threw", <<>>)
  /\ UNCHANGED <<ruleVars, kernelVars, lifeVars, devVars, workerVars, cpc, cdev, ctarget,
                 scanVars>>

ScanEnumerate ==
  /\ spc = "scan"
  /\ senum' = EnumerateScan(present)
  /\ spc' = "enum"
  /\ step' = Quiet
  /\ UNCHANGED <<ruleVars, kernelVars, lifeVars, devVars, workerVars, controlVars, scur>>

\* processDevicePresence in the caller's thread
ScanPresenceOk ==
  /\ spc = "enum"
  /\ senum # <<>>
  /\ \E auth \in AuthStates, parsed \in ParsedSizes :
       LET d == LinuxDevice(syspath_map, Head(senum), auth, parsed) IN
       /\ d \in Built(syspath_map, Head(senum))
       /\ BaseInsert(d)
       /\ scur' = AssignID(next_id, device_map)
       /\ step' = StepOf(Caller, "presence", d.sys, scur', "built",
                         <<ReadEntry(d.sys, auth)>>)
  /\ senum' = Tail(senum)
  /\ spc' = "ins_lock"
  /\ UNCHANGED <<ruleVars, kernelVars, lifeVars, syspath_map, workerVars, controlVars>>

ScanPresenceFail ==
  /\ spc = "enum"
  /\ senum # <<>>
  /\ CanThrow(syspath_map, Head(senum))
  /\ step' = StepOf(Caller, "presence", Head(senum), 0, "fail", <<>>)
  /\ senum' = Tail(senum)
  /\ UNCHANGED <<ruleVars, kernelVars, lifeVars, devVars, workerVars, controlVars, spc, scur>>

ScanInsertLock ==
  /\ spc = "ins_lock"
  /\ CanLock(scur)
  /\ mutex' = [mutex EXCEPT ![scur] = Caller]
  /\ spc' = "ins_held"
  /\ step' = Quiet
  /\ UNCHANGED <<ruleVars, kernelVars, lifeVars, next_id, assigned, objs, applied, device_map,
                 syspath_map, workerVars, controlVars, senum, scur>>

ScanInsertLocked ==
  /\ spc = "ins_held"
  /\ LET sys == objs[scur].sys IN
     /\ syspath_map' = RecordSyspath(syspath_map, sys, scur)
     /\ step' = StepOf(Caller, "presence", sys, scur, "ok",
                       AfterInsert("presence", sys, objs[scur].target))
  /\ mutex' = [mutex EXCEPT ![scur] = ScopeExit(mutex[scur])]
  /\ spc' = "enum"
  /\ UNCHANGED <<ruleVars, kernelVars, lifeVars, next_id, assigned, objs, applied, device_map,
                 workerVars, controlVars, senum, scur>>

\* udevEnumerateDevices returns to scan, scan to its caller
ScanDone ==
  /\ spc = "enum"
  /\ senum = <<>>
  /\ spc' = "idle"
  /\ step' = Quiet
  /\ UNCHANGED <<ruleVars, kernelVars, lifeVars, devVars, workerVars, controlVars, senum, scur>>

(***************************************************************************)
(* The main loop: the stop check, select, udevReceiveDevice.               *)
(***************************************************************************)
\* while (!_thread.stopRequested())
LoopExit_Never(flag) == FALSE
LoopExit(flag) == flag

LoopCheck ==
  /\ wpc = "loop"
  /\ wpc' = IF LoopExit(stop_request) THEN "exited" ELSE "select"
  /\ step' = Quiet
  /\ UNCHANGED <<ruleVars, scanVars, kernelVars, lifeVars, devVars, monitor_enabled, wenum, wcur, wctx,
                 controlVars>>

EventReadable == event_fd > 0
MonitorReadable == queue # <<>>

\* FD_ISSET(_event_fd): continue, whatever the monitor has
SelectWake ==
  /\ wpc = "select"
  /\ EventReadable
  /\ wpc' = "loop"
  /\ step' = Quiet
  /\ UNCHANGED <<ruleVars, scanVars, kernelVars, lifeVars, devVars, monitor_enabled, wenum, wcur, wctx,
                 controlVars>>

SelectDevice ==
  /\ wpc = "select"
  /\ ~EventReadable
  /\ MonitorReadable
  /\ wpc' = "recv"
  /\ step' = Quiet
  /\ UNCHANGED <<ruleVars, scanVars, kernelVars, lifeVars, devVars, monitor_enabled, wenum, wcur, wctx,
                 controlVars>>

SelectTimeout ==
  /\ wpc = "select"
  /\ ~EventReadable
  /\ ~MonitorReadable
  /\ wpc' = "loop"
  /\ step' = Quiet
  /\ UNCHANGED <<ruleVars, scanVars, kernelVars, lifeVars, devVars, monitor_enabled, wenum, wcur, wctx,
                 controlVars>>

\* select returns -1: _thread.stop() sets the stop flag, and the switch is left
\* for the loop condition
SelectErrorStops_No(flag) == flag
SelectErrorStops(flag) == TRUE

SelectError ==
  /\ wpc = "select"
  /\ stop_request' = SelectErrorStops(stop_request)
  /\ wpc' = "loop"
  /\ step' = StepOf(Worker, "select", "", 0, "error", <<>>)
  /\ UNCHANGED <<ruleVars, scanVars, kernelVars, authorized_default, prior_default, mpc, event_fd, devVars,
                 monitor_enabled, wenum, wcur, wctx, controlVars>>

\* udev_monitor_receive_device: the monitor hands out its oldest event
ReceiveFrom(q) == [ev |-> Head(q), rest |-> Tail(q)]

CurEvent == ReceiveFrom(queue).ev

\* udev_monitor_receive_device returns no device; the message may be consumed
ReceiveNone ==
  /\ wpc = "recv"
  /\ \E consumed \in BOOLEAN :
       /\ queue' = IF consumed THEN ReceiveFrom(queue).rest ELSE queue
       /\ step' = IF consumed THEN StepOf(Worker, "norecv", CurEvent.sys, 0, "na", <<>>)
                              ELSE Quiet
  /\ wpc' = "loop"
  /\ UNCHANGED <<ruleVars, scanVars, present, kcount, lifeVars, devVars, monitor_enabled, wenum, wcur, wctx,
                 controlVars>>

\* an event without an action, or with one that is neither add nor remove
ReceiveIgnored ==
  /\ wpc = "recv"
  /\ ActionPath(CurEvent.action) = "ignored"
  /\ step' = StepOf(Worker, "ignored", CurEvent.sys, 0, "na", <<>>)
  /\ queue' = ReceiveFrom(queue).rest
  /\ wpc' = "loop"
  /\ UNCHANGED <<ruleVars, scanVars, present, kcount, lifeVars, devVars, monitor_enabled, wenum, wcur, wctx,
                 controlVars>>

\* processDeviceInsertion, the construction returns
InsertionOk ==
  /\ wpc = "recv"
  /\ ActionPath(CurEvent.action) = "insertion"
  /\ \E auth \in AuthStates, parsed \in ParsedSizes :
       LET d == LinuxDevice(syspath_map, CurEvent.sys, auth, parsed) IN
       /\ d \in Built(syspath_map, CurEvent.sys)
       /\ BaseInsert(d)
       /\ wcur' = AssignID(next_id, device_map)
       /\ step' = StepOf(Worker, "insertion", d.sys, wcur', "built",
                         <<ReadEntry(d.sys, auth)>>)
  /\ queue' = ReceiveFrom(queue).rest
  /\ wctx' = "insertion"
  /\ wpc' = "ins_lock"
  /\ UNCHANGED <<ruleVars, scanVars, present, kcount, lifeVars, syspath_map, monitor_enabled, wenum,
                 controlVars>>

\* processDeviceInsertion, the construction throws
InsertionFail ==
  /\ wpc = "recv"
  /\ ActionPath(CurEvent.action) = "insertion"
  /\ CanThrow(syspath_map, CurEvent.sys)
  /\ FailurePath(InsertionRejectsOnFailure, CurEvent.sys, "insertion", "loop")
  /\ queue' = ReceiveFrom(queue).rest
  /\ UNCHANGED <<ruleVars, scanVars, present, kcount, lifeVars, devVars, monitor_enabled, wenum, wcur, wctx,
                 controlVars>>

\* LinuxDeviceManager::removeDevice: the device leaves the device map and the
\* syspath leaves the syspath map
RemoveFromMaps_KeepSyspath(dm, spm, sys) == [dm |-> dm \ {spm[sys]}, spm |-> spm]
RemoveFromMaps(dm, spm, sys) ==
  [dm |-> dm \ {spm[sys]}, spm |-> [x \in DOMAIN spm \ {sys} |-> spm[x]]]

\* processDeviceRemoval of a syspath the map knows
RemovalKnown ==
  /\ wpc = "recv"
  /\ ActionPath(CurEvent.action) = "removal"
  /\ CurEvent.sys \in DOMAIN syspath_map
  /\ LET sys == CurEvent.sys
         id  == syspath_map[sys]
         r   == RemoveFromMaps(device_map, syspath_map, sys)
     IN  /\ device_map' = r.dm
         /\ syspath_map' = r.spm
         /\ step' = StepOf(Worker, "removal", sys, id, "ok",
                           <<NotifyEntry("DeviceRemoved", sys)>>)
  /\ queue' = ReceiveFrom(queue).rest
  /\ wpc' = "loop"
  /\ UNCHANGED <<ruleVars, scanVars, present, kcount, lifeVars, next_id, assigned, objs, mutex, applied,
                 monitor_enabled, wenum, wcur, wctx, controlVars>>

\* removeDevice throws for an unknown syspath and processDeviceRemoval catches
\* everything: where the worker goes then
UnknownRemovalPc_Escapes == "failed"
UnknownRemovalPc == "loop"

RemovalUnknown ==
  /\ wpc = "recv"
  /\ ActionPath(CurEvent.action) = "removal"
  /\ CurEvent.sys \notin DOMAIN syspath_map
  /\ step' = StepOf(Worker, "removal", CurEvent.sys, 0, "fail", <<>>)
  /\ queue' = ReceiveFrom(queue).rest
  /\ wpc' = UnknownRemovalPc
  /\ UNCHANGED <<ruleVars, scanVars, present, kcount, lifeVars, devVars, monitor_enabled, wenum, wcur, wctx,
                 controlVars>>

(***************************************************************************)
(* The control surface: allowDevice, blockDevice and rejectDevice, each    *)
(* applyDevicePolicy followed by the notification of its target.           *)
(***************************************************************************)
TargetNotification(target) ==
  CASE target = "allow"  -> "DeviceAllowed"
    [] target = "block"  -> "DeviceBlocked"
    [] target = "reject" -> "DeviceRejected"

\* the control threads are interchangeable: c2 is taken only while c1 is busy
MayCall(t) == t = "c1" \/ cpc["c1"] # "idle"

\* applyDevicePolicy(id, target): getDevice(id) returns the device of an id the
\* device map holds, and the device's mutex is taken. allowDevice, blockDevice
\* and rejectDevice pass their own target, a direct caller any Rule::Target
CallKnown(t) ==
  /\ mpc = "started"
  /\ cpc[t] = "idle"
  /\ MayCall(t)
  /\ ncalls < MaxCalls
  /\ \E id \in device_map, target \in AllTargets :
       /\ CanLock(id)
       /\ cdev' = [cdev EXCEPT ![t] = id]
       /\ ctarget' = [ctarget EXCEPT ![t] = target]
       /\ mutex' = [mutex EXCEPT ![id] = t]
  /\ cpc' = [cpc EXCEPT ![t] = "write"]
  /\ ncalls' = ncalls + 1
  /\ step' = Quiet
  /\ UNCHANGED <<ruleVars, scanVars, kernelVars, lifeVars, next_id, assigned, objs, applied, device_map,
                 syspath_map, workerVars>>

\* getDevice(id) throws for any other id
CallUnknown(t) ==
  /\ mpc = "started"
  /\ cpc[t] = "idle"
  /\ MayCall(t)
  /\ ncalls < MaxCalls
  /\ \E id \in DOMAIN objs \ device_map :
       step' = StepOf(t, "apply", objs[id].sys, id, "threw", <<>>)
  /\ ncalls' = ncalls + 1
  /\ UNCHANGED <<ruleVars, scanVars, kernelVars, lifeVars, devVars, workerVars, cpc, cdev, ctarget>>

\* where applyDevicePolicy goes after sysioApplyTarget: a failed write throws
AfterWrite_Swallow(ok) == "set"
AfterWrite(ok) == IF ok THEN "set" ELSE "idle"

\* sysioApplyTarget(device->getSysPath(), target): a target that is no policy
\* throws before anything is written, sysioWrite throws when the write fails;
\* an exception releases the lock and ends the call
Write(t) ==
  /\ cpc[t] = "write"
  /\ \E ok \in BOOLEAN :
       LET io    == sysioApplyTarget(ctarget[t])
           after == IF io.valid THEN AfterWrite(ok) ELSE "idle"
           threw == after = "idle"
       IN
       /\ io.valid \/ ok
       /\ step' = StepOf(t, "apply", objs[cdev[t]].sys, cdev[t],
                         IF threw THEN "threw" ELSE "written",
                         IF io.valid THEN <<BackendWrite(objs[cdev[t]].sys, ctarget[t], ok)>>
                                     ELSE <<>>)
       /\ applied' = IF io.valid /\ ok THEN [applied EXCEPT ![cdev[t]] = ctarget[t]]
                                       ELSE applied
       /\ cpc' = [cpc EXCEPT ![t] = after]
       /\ mutex' = IF threw THEN [mutex EXCEPT ![cdev[t]] = ScopeExit(t)] ELSE mutex
       /\ cdev' = IF threw THEN [cdev EXCEPT ![t] = 0] ELSE cdev
       /\ ctarget' = IF threw THEN [ctarget EXCEPT ![t] = "allow"] ELSE ctarget
  /\ UNCHANGED <<ruleVars, scanVars, kernelVars, lifeVars, next_id, assigned, objs, device_map, syspath_map,
                 workerVars, ncalls>>

\* device->setTarget(target); the lock is released on return
SetTarget(t) ==
  /\ cpc[t] = "set"
  /\ objs' = [objs EXCEPT ![cdev[t]].target = ctarget[t]]
  /\ mutex' = [mutex EXCEPT ![cdev[t]] = ScopeExit(t)]
  /\ cpc' = [cpc EXCEPT ![t] = "notify"]
  /\ step' = Quiet
  /\ UNCHANGED <<ruleVars, scanVars, kernelVars, lifeVars, next_id, assigned, applied, device_map, syspath_map,
                 workerVars, cdev, ctarget, ncalls>>

\* DeviceAllowed(device) / DeviceBlocked(device) / DeviceRejected(device)
Notify(t) ==
  /\ cpc[t] = "notify"
  /\ step' = StepOf(t, "notify", objs[cdev[t]].sys, cdev[t], "ok",
                    <<NotifyEntry(TargetNotification(ctarget[t]), objs[cdev[t]].sys)>>)
  /\ cpc' = [cpc EXCEPT ![t] = "idle"]
  /\ cdev' = [cdev EXCEPT ![t] = 0]
  /\ ctarget' = [ctarget EXCEPT ![t] = "allow"]
  /\ UNCHANGED <<ruleVars, scanVars, kernelVars, lifeVars, devVars, workerVars, ncalls>>

(***************************************************************************)
(* The rule parser's actions (RuleParser). The grammar hands the actions   *)
(* the text it matched; a text is the sequence of its pieces. A rule is a  *)
(* target followed by attribute clauses: a keyword, then one value, or an  *)
(* operator and a list of one or more values in braces.                    *)
(***************************************************************************)
MaxTokens == 7   \* tokens of a rule's text
MaxList == 2   \* values of a brace list

Keywords == {"name", "id", "hash", "parent-hash", "serial", "via-port", "with-interface", "if"}
Attributes == {"attributeName", "attributeDeviceID", "attributeHash", "attributeParentHash",
               "attributeSerial", "attributeViaPort", "attributeWithInterface",
               "attributeConditions"}
StringKeywords == {"name", "hash", "parent-hash", "serial", "via-port"}

TargetTexts == {"allow", "block", "reject", "match", "device"}
OperatorTexts == {"equals", "one-of", "none-of", "all-of", "equals-ordered", "match-any"}
StringTexts == {<<"\"", "a", "\"">>, <<"\"", "\\", "\"", "\"">>}
DeviceIdTexts == {<<"1d6b", ":", "0002">>, <<"*", ":", "*">>}
InterfaceTexts == {<<"03", ":", "01", ":", "01">>, <<"03", ":", "01", ":", "02">>}
ConditionTexts == {<<"true">>, <<"!", "false">>}

ValueTexts(kw) ==
  CASE kw \in StringKeywords -> StringTexts
    [] kw = "id" -> DeviceIdTexts
    [] kw = "with-interface" -> InterfaceTexts
    [] kw = "if" -> ConditionTexts

\* Rule::targetFromString and Rule::setOperatorFromString
targetFromString(text) ==
  CASE text = "allow" -> "ALLOW"
    [] text = "block" -> "BLOCK"
    [] text = "reject" -> "REJECT"
    [] text = "match" -> "MATCH"
    [] text = "device" -> "DEVICE"

setOperatorFromString(text) ==
  CASE text = "equals" -> "EQUALS"
    [] text = "one-of" -> "ONE_OF"
    [] text = "none-of" -> "NONE_OF"
    [] text = "all-of" -> "ALL_OF"
    [] text = "equals-ordered" -> "EQUALS_ORDERED"
    [] text = "match-any" -> "MATCH_ANY"

\* Utility::unescapeString: a backslash stands for the character after it
RECURSIVE unescapeString(_)
unescapeString(raw) ==
  IF raw = <<>> THEN <<>>
  ELSE IF Head(raw) = "\\" /\ Len(raw) >= 2
       THEN <<raw[2]>> \o unescapeString(SubSeq(raw, 3, Len(raw)))
       ELSE <<Head(raw)>> \o unescapeString(Tail(raw))

\* stringValueFromRule: the text without its quotes, unescaped
stringValueFromRule(value) == unescapeString(SubSeq(value, 2, Len(value) - 1))

\* tokenizeString(in.string(), tokens, ":")
tokenizeString(text) == SelectSeq(text, LAMBDA x : x # ":")

\* USBDeviceID(tokens[0], tokens[1])
USBDeviceID(text) == LET tokens == tokenizeString(text) IN <<tokens[1], tokens[2]>>

\* USBInterfaceType(in.string()): class, subclass, protocol
USBInterfaceType(text) ==
  LET tokens == tokenizeString(text) IN <<tokens[1], tokens[2], tokens[3]>>

\* RuleCondition::getImplementation(in.string()): the condition's name and
\* whether it is negated
getImplementation(text) ==
  IF Head(text) = "!" THEN <<text[2], "negated">> ELSE <<text[1], "plain">>

\* the value an attribute's value action appends for the text it matched
ValueFromText(kw, text) ==
  CASE kw \in StringKeywords -> stringValueFromRule(text)
    [] kw = "id" -> USBDeviceID(text)
    [] kw = "with-interface" -> USBInterfaceType(text)
    [] kw = "if" -> getImplementation(text)

\* Rule::Attribute: a new attribute has no values and the operator Equals;
\* empty() says that it has no values
DefaultOperator == "EQUALS"
NewAttribute == [op |-> DefaultOperator, values |-> <<>>]
AttributeEmpty(a) == a.values = <<>>
NewRule == [target |-> "UNKNOWN", device_id |-> <<>>, attr |-> [f \in Attributes |-> NewAttribute]]

\* which attribute of the rule the keyword's action tests for emptiness
AttributeChecked_HashForParentHash(kw) ==
  CASE kw = "name" -> "attributeName"
    [] kw = "id" -> "attributeDeviceID"
    [] kw = "hash" -> "attributeHash"
    [] kw = "parent-hash" -> "attributeHash"
    [] kw = "serial" -> "attributeSerial"
    [] kw = "via-port" -> "attributeViaPort"
    [] kw = "with-interface" -> "attributeWithInterface"
    [] kw = "if" -> "attributeConditions"
AttributeChecked(kw) ==
  CASE kw = "name" -> "attributeName"
    [] kw = "id" -> "attributeDeviceID"
    [] kw = "hash" -> "attributeHash"
    [] kw = "parent-hash" -> "attributeParentHash"
    [] kw = "serial" -> "attributeSerial"
    [] kw = "via-port" -> "attributeViaPort"
    [] kw = "with-interface" -> "attributeWithInterface"
    [] kw = "if" -> "attributeConditions"

\* which attribute of the rule the value action of a keyword's clause appends to
AttributeAppended(kw) ==
  CASE kw = "name" -> "attributeName"
    [] kw = "id" -> "attributeDeviceID"
    [] kw = "hash" -> "attributeHash"
    [] kw = "parent-hash" -> "attributeParentHash"
    [] kw = "serial" -> "attributeSerial"
    [] kw = "via-port" -> "attributeViaPort"
    [] kw = "with-interface" -> "attributeWithInterface"
    [] kw = "if" -> "attributeConditions"

\* which attribute of the rule the operator action of a keyword's clause sets
AttributeOperated_HashForParentHash(kw) ==
  CASE kw = "name" -> "attributeName"
    [] kw = "id" -> "attributeDeviceID"
    [] kw = "hash" -> "attributeHash"
    [] kw = "parent-hash" -> "attributeHash"
    [] kw = "serial" -> "attributeSerial"
    [] kw = "via-port" -> "attributeViaPort"
    [] kw = "with-interface" -> "attributeWithInterface"
    [] kw = "if" -> "attributeConditions"
AttributeOperated(kw) ==
  CASE kw = "name" -> "attributeName"
    [] kw = "id" -> "attributeDeviceID"
    [] kw = "hash" -> "attributeHash"
    [] kw = "parent-hash" -> "attributeParentHash"
    [] kw = "serial" -> "attributeSerial"
    [] kw = "via-port" -> "attributeViaPort"
    [] kw = "with-interface" -> "attributeWithInterface"
    [] kw = "if" -> "attributeConditions"

NoError == [kind |-> "none", what |-> "", at |-> 0]
NoToken == [kind |-> "none", text |-> <<>>]
NoClause == [kw |-> "", op |-> "", vals |-> <<>>]

\* the grammar has matched k more tokens, the last of them as kind
Consumed(kind, text, k) ==
  /\ pn + k <= MaxTokens
  /\ pn' = pn + k
  /\ plast' = [kind |-> kind, text |-> text]

\* rule_parser_actions<target>
ParseTarget ==
  /\ pstate = "target"
  /\ \E text \in TargetTexts :
       /\ Consumed("target", <<text>>, 1)
       /\ prule' = [prule EXCEPT !.target = targetFromString(text)]
  /\ pstate' = "attrs"
  /\ UNCHANGED <<managerVars, condVars, pkeys, perr, pclause>>

\* rule_parser_actions<device_id>: a device id right after the target
ParseDeviceID ==
  /\ pstate = "attrs"
  /\ plast.kind = "target"
  /\ \E text \in DeviceIdTexts :
       /\ Consumed("device_id", text, 1)
       /\ prule' = [prule EXCEPT !.device_id = USBDeviceID(text)]
  /\ UNCHANGED <<managerVars, condVars, pstate, pkeys, perr, pclause>>

\* the action of an attribute's keyword: parse_error("... already defined")
\* when the attribute is not empty
ParseKeyword ==
  /\ pstate = "attrs"
  /\ \E kw \in Keywords :
       /\ Consumed("keyword", <<kw>>, 1)
       /\ pkeys' = pkeys \cup {kw}
       /\ IF ~AttributeEmpty(prule.attr[AttributeChecked(kw)])
          THEN /\ pstate' = "failed"
               /\ perr' = [kind |-> "already defined", what |-> kw, at |-> pn + 1]
               /\ pclause' = pclause
          ELSE /\ pstate' = "value"
               /\ perr' = perr
               /\ pclause' = [kw |-> kw, op |-> "", vals |-> <<>>]
  /\ UNCHANGED <<managerVars, condVars, prule>>

\* rule.attribute...().append(value)
AppendValue(rule, kw, text) ==
  [rule EXCEPT !.attr[AttributeAppended(kw)].values = Append(@, ValueFromText(kw, text))]

\* the value action of a clause with one value and no operator
ParseBareValue ==
  /\ pstate = "value"
  /\ \E text \in ValueTexts(pclause.kw) :
       /\ Consumed("value", text, 1)
       /\ prule' = AppendValue(prule, pclause.kw, text)
       /\ pclause' = [pclause EXCEPT !.vals = Append(@, text)]
  /\ pstate' = "attrs"
  /\ UNCHANGED <<managerVars, condVars, pkeys, perr>>

\* the multiset_operator action of a clause; the opening brace follows
ParseOperator ==
  /\ pstate = "value"
  /\ \E text \in OperatorTexts :
       /\ Consumed("operator", <<text>>, 2)
       /\ prule' = [prule EXCEPT !.attr[AttributeOperated(pclause.kw)].op =
                                   setOperatorFromString(text)]
       /\ pclause' = [pclause EXCEPT !.op = text]
  /\ pstate' = "list"
  /\ UNCHANGED <<managerVars, condVars, pkeys, perr>>

\* the value action of a value in the braces
ParseListValue ==
  /\ pstate = "list"
  /\ Len(pclause.vals) < MaxList
  /\ \E text \in ValueTexts(pclause.kw) :
       /\ Consumed("value", text, 1)
       /\ prule' = AppendValue(prule, pclause.kw, text)
       /\ pclause' = [pclause EXCEPT !.vals = Append(@, text)]
  /\ UNCHANGED <<managerVars, condVars, pstate, pkeys, perr>>

\* the closing brace, after at least one value
ParseClose ==
  /\ pstate = "list"
  /\ pclause.vals # <<>>
  /\ Consumed("close", <<"}">>, 1)
  /\ pstate' = "attrs"
  /\ UNCHANGED <<managerVars, condVars, prule, pkeys, perr, pclause>>

\* the end of the rule's text
ParseEnd ==
  /\ pstate = "attrs"
  /\ pstate' = "done"
  /\ plast' = [kind |-> "end", text |-> <<>>]
  /\ UNCHANGED <<managerVars, condVars, prule, pn, pkeys, perr, pclause>>

(***************************************************************************)
(* FixedStateCondition: the conditions `true` and `false`. An entry of     *)
(* conds is an object, how it came to be, and the state its constructor    *)
(* (or that of the object it was cloned from) was called with.             *)
(***************************************************************************)
MaxConds == 3   \* condition objects alive
MaxUpdates == 3   \* calls of update

\* FixedStateCondition(bool state, bool negated)
FixedStateCondition(state, negated) ==
  [name |-> IF state THEN "true" ELSE "false", negated |-> negated, state |-> state]

\* FixedStateCondition(const FixedStateCondition& rhs)
CopyCondition(rhs) == [name |-> rhs.name, negated |-> rhs.negated, state |-> rhs.state]

\* FixedStateCondition::update(const Rule& rule)
update_Negates(c, rule) == c.state # c.negated
update(c, rule) == c.state

\* FixedStateCondition::clone()
clone(c) == CopyCondition(c)

NoCall == [op |-> "none", at |-> 0, value |-> FALSE, n |-> 0]

CondNew ==
  /\ Len(conds) < MaxConds
  /\ \E state \in BOOLEAN, negated \in BOOLEAN :
       conds' = Append(conds, [obj |-> FixedStateCondition(state, negated),
                               from |-> "new", made |-> state])
  /\ cres' = [op |-> "new", at |-> Len(conds) + 1, value |-> FALSE, n |-> cres.n]
  /\ UNCHANGED <<managerVars, parserVars>>

CondClone ==
  /\ Len(conds) < MaxConds
  /\ \E i \in 1..Len(conds) :
       conds' = Append(conds, [obj |-> clone(conds[i].obj), from |-> "clone",
                               made |-> conds[i].made])
  /\ cres' = [op |-> "clone", at |-> Len(conds) + 1, value |-> FALSE, n |-> cres.n]
  /\ UNCHANGED <<managerVars, parserVars>>

CondUpdate ==
  /\ cres.n < MaxUpdates
  /\ \E i \in 1..Len(conds), target \in {"ALLOW", "BLOCK"} :
       cres' = [op |-> "update", at |-> i,
                value |-> update(conds[i].obj, [NewRule EXCEPT !.target = target]),
                n |-> cres.n + 1]
  /\ UNCHANGED <<managerVars, parserVars, conds>>

(***************************************************************************)
(* The specification.                                                      *)
(***************************************************************************)
ManagerInit ==
  /\ present = {}
  /\ queue = <<>>
  /\ kcount = 0
  /\ authorized_default \in BOOLEAN
  /\ prior_default = authorized_default
  /\ mpc = "new"
  /\ stop_request = FALSE
  /\ event_fd = 0
  /\ monitor_enabled = FALSE
  /\ next_id = 1
  /\ assigned = <<>>
  /\ objs = <<>>
  /\ mutex = <<>>
  /\ applied = <<>>
  /\ device_map = {}
  /\ syspath_map = <<>>
  /\ wpc = "idle"
  /\ wenum = <<>>
  /\ wcur = 0
  /\ wctx = "presence"
  /\ spc = "idle"
  /\ senum = <<>>
  /\ scur = 0
  /\ cpc = [t \in Threads |-> "idle"]
  /\ cdev = [t \in Threads |-> 0]
  /\ ctarget = [t \in Threads |-> "allow"]
  /\ ncalls = 0
  /\ step = Quiet

ParserOff ==
  /\ pstate = "off"
  /\ prule = NewRule
  /\ pn = 0
  /\ pkeys = {}
  /\ perr = NoError
  /\ plast = NoToken
  /\ pclause = NoClause

CondOff ==
  /\ conds = <<>>
  /\ cres = NoCall

Init == ManagerInit /\ ParserOff /\ CondOff

LifeNext == Ctor \/ Start \/ DtorRestore \/ StopRequest \/ StopWake \/ StopJoin

WorkerNext ==
  \/ WorkerEnable \/ WorkerScan \/ PresenceOk \/ PresenceFail \/ EnumDone
  \/ InsertLock \/ InsertLocked \/ LoopCheck
  \/ SelectWake \/ SelectDevice \/ SelectTimeout \/ SelectError
  \/ ReceiveNone \/ ReceiveIgnored \/ InsertionOk \/ InsertionFail
  \/ RemovalKnown \/ RemovalUnknown

\* the manager from its construction to its destruction, driven by the kernel
Next ==
  \/ KernelPlug(MaxEvents) \/ KernelUnplug(MaxEvents) \/ KernelOther(MaxEvents)
  \/ LifeNext
  \/ WorkerNext

Spec == Init /\ [][Next]_vars

\* every thread that can take a step eventually takes one
FairSpec ==
  /\ Spec
  /\ WF_vars(WorkerNext)
  /\ WF_vars(StopRequest \/ StopWake \/ StopJoin)

\* the manager from its construction on, with scan() called by another thread
\* before, while or after start() is
ScanNext ==
  \/ KernelPlug(MaxScanEvents) \/ KernelUnplug(MaxScanEvents) \/ KernelOther(MaxScanEvents)
  \/ Scan \/ ScanRefused \/ ScanEnumerate \/ ScanPresenceOk \/ ScanPresenceFail
  \/ ScanInsertLock \/ ScanInsertLocked \/ ScanDone
  \/ Ctor \/ Start
  \/ WorkerEnable \/ WorkerScan \/ PresenceOk \/ PresenceFail \/ EnumDone
  \/ InsertLock \/ InsertLocked \/ LoopCheck
  \/ SelectDevice \/ SelectTimeout
  \/ ReceiveIgnored \/ InsertionOk \/ InsertionFail
  \/ RemovalKnown \/ RemovalUnknown

ScanSpec == Init /\ [][ScanNext]_vars

\* the running manager with the control surface calling in, the kernel plugging
\* and unplugging devices
ControlInit == Init /\ authorized_default = TRUE

ControlNext(t) ==
  CallKnown(t) \/ CallUnknown(t) \/ Write(t) \/ SetTarget(t) \/ Notify(t)

CNext ==
  \/ KernelPlug(MaxCtlEvents) \/ KernelUnplug(MaxCtlEvents)
  \/ Ctor \/ Start
  \/ WorkerEnable \/ WorkerScan \/ PresenceOk \/ PresenceFail \/ EnumDone
  \/ InsertLock \/ InsertLocked \/ LoopCheck \/ SelectDevice \/ SelectTimeout
  \/ InsertionOk \/ InsertionFail \/ RemovalKnown \/ RemovalUnknown
  \/ \E t \in Threads : ControlNext(t)

ControlSpec == ControlInit /\ [][CNext]_vars

\* the parse of one rule, over every text within the bounds
ParseInit ==
  /\ ManagerInit
  /\ authorized_default = TRUE
  /\ CondOff
  /\ pstate = "target"
  /\ prule = NewRule
  /\ pn = 0
  /\ pkeys = {}
  /\ perr = NoError
  /\ plast = NoToken
  /\ pclause = NoClause

ParseNext ==
  \/ ParseTarget \/ ParseDeviceID \/ ParseKeyword \/ ParseBareValue
  \/ ParseOperator \/ ParseListValue \/ ParseClose \/ ParseEnd

ParseSpec == ParseInit /\ [][ParseNext]_vars

\* fixed-state conditions constructed, cloned and evaluated
CondInit == ManagerInit /\ authorized_default = TRUE /\ ParserOff /\ CondOff

CondNext == CondNew \/ CondClone \/ CondUpdate

CondSpec == CondInit /\ [][CondNext]_vars

(***************************************************************************)
(* Properties.                                                             *)
(***************************************************************************)
WorkerStep(path, res) == step.by = Worker /\ step.path = path /\ step.res = res

\* the worker receives the monitor's oldest event in this step
Receives == wpc = "recv" /\ queue # <<>> /\ queue' = Tail(queue) /\ step'.path # "norecv"

RegistryUnchanged ==
  /\ device_map' = device_map
  /\ syspath_map' = syspath_map
  /\ objs' = objs
  /\ next_id' = next_id

\* C1: a hotplug add whose Device construction fails writes REJECT (1 to remove)
\* to that event's syspath exactly once, registers no device (device map and
\* syspath map unchanged) and emits no notification.
C1_FailedInsertionRejectsOnce ==
  [][ (Receives /\ Head(queue).action = "add" /\ step'.res = "fail")
      => /\ step'.path = "insertion"
         /\ Len(step'.fx) = 1
         /\ step'.fx[1] = WriteEntry(Head(queue).sys, "reject", "remove", 1, step'.fx[1].ok)
         /\ Notifies(step'.fx) = <<>>
         /\ RegistryUnchanged ]_vars

C1_Witness ==
  /\ WorkerStep("insertion", "fail")
  /\ Len(Writes(step.fx)) = 1
  /\ device_map # {}

\* C2: the applications of allowDevice / blockDevice / rejectDevice to one device
\* never overlap between taking the device's mutex and the cached-target update,
\* and whenever no application to a device is in progress its cached target is
\* the target of the last backend write an application got through.
Applying(id) == {t \in Threads : cdev[t] = id /\ cpc[t] \in {"write", "set"}}

C2_ApplicationsSerialize ==
  \A id \in DOMAIN objs :
    /\ Cardinality(Applying(id)) <= 1
    /\ (Applying(id) = {} /\ applied[id] # "none") => objs[id].target = applied[id]

C2_Witness ==
  /\ cpc["c1"] = "notify"
  /\ cpc["c2"] = "set"
  /\ cdev["c1"] = cdev["c2"]
  /\ {ctarget["c1"], ctarget["c2"]} = {"allow", "block"}

\* C3: when the backend write of a policy application fails, the call ends with
\* the exception (no cached-target update, no notification follows) and the
\* device's cached target is what it was.
C3_FailedApplyKeepsTarget ==
  [][ \A t \in Threads :
        (step'.by = t /\ step'.path = "apply" /\ Len(step'.fx) = 1 /\ ~step'.fx[1].ok)
        => /\ step'.res = "threw"
           /\ cpc'[t] = "idle"
           /\ objs' = objs
           /\ applied' = applied ]_vars

C3_Witness ==
  /\ step.path = "apply"
  /\ step.res = "threw"
  /\ Len(step.fx) = 1
  /\ step.fx[1].kind # objs[step.dev].target

\* C4: a hotplug remove for a registered syspath takes the device out of the
\* device map and the syspath out of the syspath map, leaves every other entry,
\* and emits DeviceRemoved for that device once; the syspath then resolves to no ID.
C4_RemovalUnregisters ==
  [][ (Receives /\ Head(queue).action = "remove" /\ Head(queue).sys \in DOMAIN syspath_map)
      => LET sys == Head(queue).sys
             id  == syspath_map[sys]
         IN  /\ device_map' = device_map \ {id}
             /\ DOMAIN syspath_map' = DOMAIN syspath_map \ {sys}
             /\ \A x \in DOMAIN syspath_map' : syspath_map'[x] = syspath_map[x]
             /\ ~getIDFromSysPath(syspath_map', sys).ok
             /\ step'.fx = <<NotifyEntry("DeviceRemoved", sys)>>
             /\ step'.dev = id ]_vars

C4_Witness ==
  /\ WorkerStep("removal", "ok")
  /\ step.dev \notin device_map
  /\ step.sys \notin DOMAIN syspath_map

\* C5: a hotplug remove for a syspath the syspath map does not hold raises no
\* error out of the worker, emits nothing and leaves both maps as they were.
C5_UnknownRemovalIgnored ==
  [][ (Receives /\ Head(queue).action = "remove" /\ Head(queue).sys \notin DOMAIN syspath_map)
      => /\ wpc' = "loop"
         /\ step'.fx = <<>>
         /\ RegistryUnchanged ]_vars

C5_Witness ==
  /\ WorkerStep("removal", "fail")
  /\ wpc = "loop"

\* C6: on the enumeration path a failed Device construction writes nothing to
\* the backend, registers nothing, emits nothing, and the enumeration goes on
\* with the remaining devices.
C6_FailedPresenceNotRejected ==
  [][ (wpc = "enum" /\ step'.by = Worker /\ step'.res = "fail")
      => /\ step'.path = "presence"
         /\ step'.fx = <<>>
         /\ RegistryUnchanged
         /\ wpc' = "enum"
         /\ wenum' = Tail(wenum) ]_vars

C6_Witness ==
  /\ WorkerStep("presence", "fail")
  /\ wpc = "enum"
  /\ wenum # <<>>

\* C7: the IDs handed out are strictly increasing in assignment order (none is
\* used twice, also after its device was removed) and none is 0.
C7_IdsStrictlyIncrease ==
  /\ \A i, j \in 1..Len(assigned) : i < j => assigned[i] < assigned[j]
  /\ \A i \in 1..Len(assigned) : assigned[i] # RootID /\ assigned[i] > 0

C7_Witness ==
  /\ Len(assigned) >= 2
  /\ assigned[Len(assigned)] \in device_map
  /\ \E i \in 1..(Len(assigned) - 1) :
       /\ assigned[i] \notin device_map
       /\ objs[assigned[i]].sys = objs[assigned[Len(assigned)]].sys

\* C8: once stop() has set the stop flag and written the wake-up byte, the
\* worker takes up no further hotplug event (at the loop check it leaves, in
\* select it returns to the loop check), and it ends and stop() returns.
StopSignalled == mpc = "stop_woken"

C8_StopEndsWorker ==
  /\ [][ StopSignalled => /\ wpc = "loop" => wpc' \in {"loop", "exited"}
                          /\ wpc = "select" => wpc' \in {"select", "loop"} ]_vars
  /\ StopSignalled ~> (WorkerEnded /\ mpc = "destroyed")

C8_Witness ==
  /\ mpc = "destroyed"
  /\ wpc = "exited"
  /\ queue # <<>>

\* C9: at shutdown the system-wide default authorization has the value it had
\* before the constructor set it to blocked.
C9_DefaultRestored ==
  mpc \in {"restored", "stop_flagged", "stop_woken", "destroyed"}
    => authorized_default = prior_default

\* C10: the worker takes the events off the monitor one at a time, oldest
\* first; add runs the insertion path, remove the removal path, and an event
\* with another or no action changes no device state and emits nothing.
C10_EventsInOrder ==
  [][ queue' # queue
      => \/ \E s \in SysPaths, a \in {"add", "remove", "change", NoAction} :
              queue' = Append(queue, [action |-> a, sys |-> s])
         \/ /\ wpc = "recv"
            /\ queue' = Tail(queue)
            /\ step'.by = Worker
            /\ step'.sys = Head(queue).sys
            /\ \/ step'.path = "norecv"
               \/ Head(queue).action = "add" /\ step'.path = "insertion"
               \/ Head(queue).action = "remove" /\ step'.path = "removal"
               \/ /\ Head(queue).action \notin {"add", "remove"}
                  /\ step'.path = "ignored"
                  /\ step'.fx = <<>>
                  /\ RegistryUnchanged ]_vars

C10_Witness ==
  /\ WorkerStep("ignored", "na")
  /\ queue # <<>>
  /\ device_map # {}

\* C12: every backend write is the translation of its target for the syspath it
\* is applied to: allow writes 1 to authorized, block writes 0 to authorized,
\* reject writes 1 to remove; applying any other target (match, device, unknown)
\* throws and writes nothing.
C12_TargetTranslation ==
  [][ /\ \A i \in 1..Len(step'.fx) :
           LET e == step'.fx[i] IN
           e.type = "write" =>
             /\ e.sys = step'.sys
             /\ e.kind = "allow" => (e.file = "authorized" /\ e.value = 1)
             /\ e.kind = "block" => (e.file = "authorized" /\ e.value = 0)
             /\ e.kind = "reject" => (e.file = "remove" /\ e.value = 1)
             /\ e.kind \in Targets
      /\ \A t \in Threads :
           (cpc[t] = "write" /\ cpc'[t] # "write")
           => IF ctarget[t] \in Targets
              THEN /\ Len(step'.fx) = 1
                   /\ step'.fx[1].type = "write"
                   /\ step'.fx[1].kind = ctarget[t]
              ELSE /\ step'.fx = <<>>
                   /\ step'.res = "threw"
                   /\ objs' = objs ]_vars

C12_Witness ==
  /\ step.path = "apply"
  /\ step.res = "threw"
  /\ step.fx = <<>>
  /\ step.dev \in device_map
  /\ \E id \in device_map : applied[id] = "block"

C15_OnlyWorkerMutatesMap ==
  [][ syspath_map' # syspath_map => step'.by = Worker ]_vars

\* C16: when the worker finds the wake-up fd readable it reads the counter down
\* to zero, so that the fd is readable again only after another write, and goes
\* back to the check of the stop flag (a wake-up without a stop request then
\* leaves the next select free to return the monitor's events).
C16_WakeupDrained ==
  [][ (wpc = "select" /\ EventReadable /\ wpc' # "select" /\ step'.res # "error")
      => /\ event_fd' = 0
         /\ wpc' = "loop" ]_vars

C18_InitialTargetFromAuthorized ==
  [][ step'.res = "built"
      => /\ Len(step'.fx) = 1
         /\ step'.fx[1].type = "read"
         /\ step'.fx[1].kind # "absent"
         /\ LET auth == step'.fx[1].kind
                t    == objs'[step'.dev].target
            IN  /\ auth = "1" => t = "allow"
                /\ auth = "0" => t = "block"
                /\ auth \notin {"0", "1"} => t = "block"
                /\ t \notin {"unknown", "reject"} ]_vars

C18_Witness ==
  /\ step.res = "built"
  /\ Len(step.fx) = 1
  /\ step.fx[1].kind = "x"
  /\ objs[step.dev].target = "block"
  /\ \E id \in device_map : objs[id].target = "allow"

\* C20: with no insertion under way, the registered devices and the syspath
\* map correspond one to one, whatever was enumerated, added and removed (scan()
\* is never called under this specification): the syspath of every
\* registered device maps to that device's ID, no two registered devices have
\* the same syspath, and every ID in the map is a registered device.
C20_MapsCorrespond ==
  wpc \notin {"ins_lock", "ins_held"}
  => /\ \A id \in device_map :
          getIDFromSysPath(syspath_map, objs[id].sys) = [ok |-> TRUE, id |-> id]
     /\ \A a, b \in device_map : objs[a].sys = objs[b].sys => a = b
     /\ \A x \in DOMAIN syspath_map : syspath_map[x] \in device_map

\* the attribute of the rule an attribute keyword names
AttributeOf(kw) ==
  CASE kw = "name" -> "attributeName"
    [] kw = "id" -> "attributeDeviceID"
    [] kw = "hash" -> "attributeHash"
    [] kw = "parent-hash" -> "attributeParentHash"
    [] kw = "serial" -> "attributeSerial"
    [] kw = "via-port" -> "attributeViaPort"
    [] kw = "with-interface" -> "attributeWithInterface"
    [] kw = "if" -> "attributeConditions"

\* C11: when the parser consumes an attribute keyword it has consumed before in
\* this rule, the parse fails there with the already-defined error for that
\* keyword, at that token, whatever the first occurrence assigned; a keyword
\* seen for the first time raises no error.
C11_DuplicateAttributeFails ==
  [][ (pn' = pn + 1 /\ plast'.kind = "keyword")
      => LET kw == plast'.text[1] IN
         IF kw \in pkeys
         THEN /\ pstate' = "failed"
              /\ perr' = [kind |-> "already defined", what |-> kw, at |-> pn']
              /\ prule' = prule
         ELSE /\ pstate' = "value"
              /\ perr' = NoError ]_vars

C11_Witness ==
  /\ pstate = "failed"
  /\ perr = [kind |-> "already defined", what |-> "parent-hash", at |-> 7]
  /\ prule.attr["attributeParentHash"].op = "MATCH_ANY"
  /\ Len(prule.attr["attributeParentHash"].values) = 1

\* C14: when a clause ends, its attribute holds EQUALS and the one value of a
\* bare value, or the operator named and the listed values in the order of the
\* text; no step of a clause changes any other attribute, the target or the
\* device id of the rule.
C14_ClauseSetsItsAttribute ==
  [][ /\ (pstate \in {"value", "list"} /\ pstate' = "attrs")
         => LET kw == pclause'.kw
                a  == prule'.attr[AttributeOf(kw)]
            IN  /\ Len(a.values) = Len(pclause'.vals)
                /\ \A i \in 1..Len(a.values) : a.values[i] = ValueFromText(kw, pclause'.vals[i])
                /\ pclause'.op = "" => (a.op = "EQUALS" /\ Len(a.values) = 1)
                /\ pclause'.op = "equals" => a.op = "EQUALS"
                /\ pclause'.op = "one-of" => a.op = "ONE_OF"
                /\ pclause'.op = "none-of" => a.op = "NONE_OF"
                /\ pclause'.op = "all-of" => a.op = "ALL_OF"
                /\ pclause'.op = "equals-ordered" => a.op = "EQUALS_ORDERED"
                /\ pclause'.op = "match-any" => a.op = "MATCH_ANY"
      /\ (pstate \in {"value", "list"})
         => /\ \A f \in Attributes \ {AttributeOf(pclause.kw)} : prule'.attr[f] = prule.attr[f]
            /\ prule'.target = prule.target
            /\ prule'.device_id = prule.device_id ]_vars

C14_Witness ==
  /\ pstate = "attrs"
  /\ prule.target = "BLOCK"
  /\ prule.attr["attributeWithInterface"] =
       [op |-> "ONE_OF", values |-> << <<"03", "01", "01">>, <<"03", "01", "02">> >>]
  /\ \A f \in Attributes \ {"attributeWithInterface"} : prule.attr[f] = NewAttribute

\* C19: update of a fixed-state condition returns the state the condition was
\* constructed with (for a clone: the state its origin was constructed with),
\* for any rule, negated or not, after any number of update calls.
C19_FixedStateUpdate ==
  cres.op = "update" => cres.value = conds[cres.at].made

C19_Witness ==
  /\ cres.op = "update"
  /\ cres.n >= 2
  /\ conds[cres.at].from = "clone"
  /\ conds[cres.at].obj.negated
  /\ cres.value = TRUE

\* the device is in the device map: once removed it never is again, its ID is
\* not handed out twice
Registered(id) == id \in device_map

\* C21: a policy application never writes to the backend for a device, nor sets
\* the device's cached target, once the worker has removed the device from the
\* maps.
C21_NoApplyAfterRemoval ==
  [][ \A t \in Threads :
        /\ (cpc[t] = "write" /\ step'.by = t /\ Writes(step'.fx) # <<>>)
           => Registered(cdev[t])
        /\ (cpc[t] = "set" /\ cpc'[t] = "notify") => Registered(cdev[t]) ]_vars

\* C22: the target notifications of a device come in the order of the backend
\* writes they report: the notification that ends the last of the allowDevice
\* and blockDevice calls under way on a device names the device's cached
\* target.
C22_LastNotificationNamesTarget ==
  [][ \A t \in Threads :
        ( /\ cpc[t] = "notify"
          /\ cpc'[t] = "idle"
          /\ ctarget[t] \in {"allow", "block"}
          /\ objs[cdev[t]].target \in {"allow", "block"}
          /\ \A u \in Threads \ {t} : cdev[u] # cdev[t] )
        => Notifies(step'.fx) =
             <<NotifyEntry(TargetNotification(objs[cdev[t]].target), objs[cdev[t]].sys)>> ]_vars

\* the worker handles a hotplug add in this step (processDeviceInsertion)
ProcessesAdd == step'.by = Worker /\ step'.path = "insertion"

\* the destructor has restored the default and has not yet joined the worker
ShuttingDown == mpc \in {"restored", "stop_flagged", "stop_woken"}

\* C23: from the end of the constructor until the worker has exited the default
\* authorization is blocked: the worker never handles a hotplug add while the
\* default is authorized, also not between the destructor's restoring of the
\* default and its join of the worker.
C23_DefaultBlockedWhileWorkerRuns ==
  [][ ProcessesAdd => ~authorized_default ]_vars

\* C23 as amended: from the end of the constructor until the destructor begins
\* the default authorization is blocked, and the worker handles a hotplug add
\* with the default authorized only between the destructor's restoring of the
\* default and the worker's exit.
C23_DefaultBlockedUntilShutdown ==
  [][ /\ mpc \in {"constructed", "started"} => ~authorized_default
      /\ (ProcessesAdd /\ authorized_default) => ShuttingDown ]_vars

C23_Witness ==
  /\ step.by = Worker
  /\ step.path = "insertion"
  /\ step.res = "ok"
  /\ mpc = "started"
  /\ prior_default
  /\ ~authorized_default

\* the parent of the device at sys is a USB device the syspath map does not hold
UnmappedParent(sys) == ParentOf(sys) \in SysPaths /\ ParentOf(sys) \notin DOMAIN syspath_map

\* C24: a device whose parent is a USB device without an entry in the syspath
\* map fails construction: nothing is registered, a hotplug add is rejected
\* through the backend and an enumerated device is skipped; so a device that is
\* registered has as parent_id ROOT (its parent is no USB device) or the ID the
\* syspath map held for its parent when it was constructed.
C24_UnmappedParentFailsConstruction ==
  [][ /\ (Receives /\ Head(queue).action = "add" /\ UnmappedParent(Head(queue).sys))
         => /\ step'.res = "fail"
            /\ RegistryUnchanged
            /\ Len(step'.fx) = 1
            /\ step'.fx[1] = BackendWrite(Head(queue).sys, "reject", step'.fx[1].ok)
      /\ (wpc = "enum" /\ wenum # <<>> /\ wenum' # wenum /\ UnmappedParent(Head(wenum)))
         => /\ step'.res = "fail"
            /\ RegistryUnchanged
            /\ step'.fx = <<>>
            /\ wpc' = "enum"
      /\ step'.res = "built"
         => /\ ~UnmappedParent(step'.sys)
            /\ objs'[step'.dev].parent_id =
                 IF ParentOf(step'.sys) \in SysPaths THEN syspath_map[ParentOf(step'.sys)]
                                                    ELSE RootID ]_vars

\* the add of a port's device is rejected while the hub it hangs on is plugged
\* in and not registered; a port's device is registered under its hub
C24_Witness ==
  /\ WorkerStep("insertion", "fail")
  /\ step.sys = "usb1/1-1"
  /\ "usb1" \in present
  /\ UnmappedParent(step.sys)
  /\ Len(Writes(step.fx)) = 1
  /\ device_map = {}

\* the mutexes a thread holds
Held(t) == {id \in DOMAIN mutex : mutex[id] = t}

\* the thread that holds a mutex can take its next step without any other mutex
HolderRuns(t) ==
  IF t \in Threads THEN ENABLED (Write(t) \/ SetTarget(t)) ELSE ENABLED InsertLocked

\* C25: a thread that has just emitted a notification holds no device mutex, no
\* thread holds two device mutexes at once, and a thread that holds a mutex can
\* always go on to release it: the worker and the control threads never wait
\* for each other in a cycle, and a callback that applies a policy to the device
\* of its notification finds the mutex not held by its own thread.
C25_HooksOutsideLocks ==
  /\ Notifies(step.fx) # <<>> => Held(step.by) = {}
  /\ \A t \in Threads \cup {Worker, Caller} : Cardinality(Held(t)) <= 1
  /\ \A id \in DOMAIN mutex : mutex[id] # NoOwner => HolderRuns(mutex[id])

\* DeviceAllowed or DeviceBlocked is emitted by one control thread while the
\* other holds the mutex of the same device
C25_Witness ==
  /\ step.path = "notify"
  /\ step.by = "c1"
  /\ Notifies(step.fx) # <<>>
  /\ mutex[step.dev] = "c2"
  /\ wpc = "ins_held"

\* the caller of scan() is inside udevEnumerateDevices
ScanEnumerating == spc \in {"scan", "enum", "ins_lock", "ins_held"}

\* C26: scan() enumerates only when the worker is not running, and otherwise
\* throws and changes nothing; so the enumeration of scan() never runs while
\* the worker enumerates or handles hotplug events, also when start() is called
\* while scan() is.
C26_ScanNeverOverlapsWorker ==
  /\ [][ /\ (spc = "idle" /\ spc' # "idle") => NotRunning
         /\ (step'.path = "scan" /\ step'.res = "threw")
            => /\ Running
               /\ RegistryUnchanged
               /\ UNCHANGED <<mutex, queue, present, scanVars, workerVars, lifeVars>> ]_vars
  /\ [](ScanEnumerating => NotRunning)

====
